---- MODULE Spec2Model ----
(***************************************************************************)
(* A model of the ecij plugin (src/src/index.ts): the per-file analyzer    *)
(* parseFile, the two-pass extraction extractCssFromCode, the plugin hooks *)
(* buildEnd / resolveId / load / transform.handler, and the two maps the   *)
(* plugin instance owns (parsedFileInfoCache, extractedCssPerFile).        *)
(*                                                                         *)
(* Text is a sequence of tokens (each token a string standing for a run of *)
(* characters), so offsets, slice and splice work as in the code, in token *)
(* units.  Style content is a sequence of chunks; the chunk " " is white   *)
(* space, every other chunk is a non-empty run of non-white characters.    *)
(* A source file is given by its syntax tree (what oxc-parser would        *)
(* return for it); its text is the rendering of that tree.                 *)
(***************************************************************************)
EXTENDS Integers, Sequences, FiniteSets, TLC

\* ---------------------------------------------------------------- bounds
\* Longest file body, in statements.
MaxStmts == 2
\* Number of transform.handler invocations in one behaviour of Spec.
MaxTransforms == 2

\* ----------------------------------------------------------------- state
VARIABLES
  parsedFileInfoCache,   \* Map<filePath, ParsedFileInfo>
  extractedCssPerFile,   \* Map<virtual module id, css content>
  disk,                  \* the text of each file on disk
  host,                  \* the ids the host transforms, and how many times
                         \* in all it calls transform.handler
  tasks                  \* the invocations of transform.handler, in call order

vars == <<parsedFileInfoCache, extractedCssPerFile, disk, host, tasks>>

\* ------------------------------------------------------- string helpers
\* The characters of a sequence of strings, as one string.
RECURSIVE Flatten(_)
Flatten(s) == IF s = <<>> THEN "" ELSE Head(s) \o Flatten(Tail(s))

\* String.prototype.slice(a, b) / Array.prototype.slice on 0-based offsets.
Slice(s, a, b) == SubSeq(s, a + 1, b)

SliceFrom(s, a) == SubSeq(s, a + 1, Len(s))

\* Array.prototype.join: the concatenation of the parts, sep between them.
RECURSIVE Join(_, _)
Join(parts, sep) ==
  IF parts = <<>> THEN <<>>
  ELSE IF Len(parts) = 1 THEN parts[1]
  ELSE parts[1] \o sep \o Join(Tail(parts), sep)

IsWhiteSpace(c) == c \in {" ", "\n"}

\* A variant of trim that trims nothing.
TrimNothing(s) == s

\* String.prototype.trim on a chunk sequence.
RECURSIVE TrimStart(_)
TrimStart(s) ==
  IF s # <<>> /\ IsWhiteSpace(Head(s)) THEN TrimStart(Tail(s)) ELSE s

RECURSIVE TrimEnd(_)
TrimEnd(s) ==
  IF s # <<>> /\ IsWhiteSpace(s[Len(s)]) THEN TrimEnd(SubSeq(s, 1, Len(s) - 1))
  ELSE s

Trim(s) == TrimEnd(TrimStart(s))

\* All sequences over S of length at most n.
RECURSIVE SeqsUpTo(_, _)
SeqsUpTo(S, n) ==
  IF n = 0 THEN {<<>>}
  ELSE LET shorter == SeqsUpTo(S, n - 1)
       IN shorter \cup {Append(s, x) : s \in shorter, x \in S}

\* ------------------------------------------------------------ constants
classPrefix == "css-"

\* cwd(), as path segments.
PROJECT_ROOT == <<"/p">>

\* md5(text).hex.slice(0, 8), taken as collision-free: distinct texts get
\* distinct digests.
hashText(text) == "#" \o text \o "#"

\* ------------------------------------------------------------ the files
\* Absolute paths, as segments and separators.
PathA == <<"/p", "/", "a.ts">>
PathB == <<"/p", "/", "b.ts">>
Paths == {PathA, PathB}

\* path.relative(PROJECT_ROOT, filePath) for a file under the root, then
\* replaceAll('\\', '/'), as one string.
RelativePath(filePath) ==
  LET rel == SliceFrom(filePath, Len(PROJECT_ROOT) + 1)
  IN Flatten([i \in 1..Len(rel) |-> IF rel[i] = "\\" THEN "/" ELSE rel[i]])

\* ---- statements of a source file
\* import { imported as local } from 'source' (kind "Name"), or a default
\* import (kind "Default").
Import(local, kind, imported, source) ==
  [k |-> "import", local |-> local, kind |-> kind, imported |-> imported,
   source |-> source]

\* const name = <literal>; typeof is the literal's JavaScript type and value
\* its String() form, as chunks.
Lit(name, typeof, value, exported) ==
  [k |-> "lit", name |-> name, typeof |-> typeof, value |-> value,
   exported |-> exported, nested |-> FALSE]

\* function f() { const name = <literal>; }: the same declarator in the
\* scope of a function body.
NestedLit(name, typeof, value) == [Lit(name, typeof, value, FALSE) EXCEPT !.nested = TRUE]

\* A tagged template; name "" when it initialises no variable declarator.
Tpl(name, tag, quasis, exprs, exported) ==
  [k |-> "tpl", name |-> name, tag |-> tag, quasis |-> quasis,
   exprs |-> exprs, exported |-> exported]

\* export { local as exported }, or export { local as exported } from 'x'.
ExportList(local, exported, from) ==
  [k |-> "export", local |-> local, exported |-> exported, from |-> from]

Comment(text) == [k |-> "comment", text |-> text]

\* Text the parser reports a syntax error for; recoverable when the parser
\* still returns the tree of the rest of the file.
Garbage(recoverable) == [k |-> "garbage", recoverable |-> recoverable]

\* ---- interpolation expressions
Id(name) == [type |-> "Identifier", name |-> name]
Complex == [type |-> "CallExpression"]
\* A css tagged template without interpolations, used as an expression.
Nested(quasi) == [type |-> "TaggedTemplateExpression", tag |-> "css", quasi |-> quasi]

\* ------------------------------------------------------------ rendering
\* The delimiter of a template literal (the grave accent of the source).
Tick == "~"

ExprTokens(e) ==
  CASE e.type = "Identifier" -> <<e.name>>
    [] e.type = "TaggedTemplateExpression" -> <<e.tag \o Tick>> \o e.quasi \o <<Tick>>
    [] OTHER -> <<"Math.random()">>

\* The tokens of a template from its i-th interpolation to its closing quote.
RECURSIVE TemplateTail(_, _, _)
TemplateTail(quasis, exprs, i) ==
  IF i > Len(exprs) THEN <<Tick>>
  ELSE <<"${">> \o ExprTokens(exprs[i]) \o <<"}">> \o quasis[i + 1]
       \o TemplateTail(quasis, exprs, i + 1)

TemplateTokens(t) ==
  <<t.tag \o Tick>> \o t.quasis[1] \o TemplateTail(t.quasis, t.exprs, 1)

ExportWord(item) == IF item.exported THEN "export " ELSE ""

\* The tokens that precede the tagged template of a statement.
TplPrefix(item) ==
  IF item.name = "" THEN <<"use(">>
  ELSE <<ExportWord(item) \o "const " \o item.name \o " =">>

ItemTokens(item) ==
  CASE item.k = "import" ->
         IF item.kind = "Default"
         THEN <<"import " \o item.local \o " from '" \o item.source \o "';">>
         ELSE IF item.local = item.imported
         THEN <<"import { " \o item.imported \o " } from '" \o item.source \o "';">>
         ELSE <<"import { " \o item.imported \o " as " \o item.local
                \o " } from '" \o item.source \o "';">>
    [] item.k = "lit" ->
         <<(IF item.nested THEN "function f() { " ELSE "")
           \o ExportWord(item) \o "const " \o item.name \o " = "
           \o (IF item.typeof = "string" THEN "'" \o Flatten(item.value) \o "'"
               ELSE Flatten(item.value)) \o ";"
           \o (IF item.nested THEN " }" ELSE "")>>
    [] item.k = "tpl" ->
         TplPrefix(item) \o TemplateTokens(item)
         \o (IF item.name = "" THEN <<");">> ELSE <<";">>)
    [] item.k = "export" ->
         <<"export { " \o item.local \o " as " \o item.exported \o " }"
           \o (IF item.from = "" THEN "" ELSE " from '" \o item.from \o "'") \o ";">>
    [] item.k = "comment" -> <<"// " \o item.text>>
    [] OTHER -> <<"const = ;">>

\* The text of a file.
RECURSIVE Render(_)
Render(items) ==
  IF items = <<>> THEN <<>> ELSE ItemTokens(Head(items)) \o Render(Tail(items))

\* --------------------------------------------------- the parser's result
\* parseSync never throws on a syntax error: it reports it in errors, with
\* an empty program when it could not recover.
HasSyntaxError(items) == \E i \in 1..Len(items) : items[i].k = "garbage"

Panicked(items) ==
  \E i \in 1..Len(items) : items[i].k = "garbage" /\ ~items[i].recoverable

\* The TaggedTemplateExpression node of a statement whose tokens start at
\* offset.
TemplateNode(item, offset) ==
  LET start == offset + Len(TplPrefix(item))
  IN [type |-> "TaggedTemplateExpression",
      tag |-> [type |-> "Identifier", name |-> item.tag],
      start |-> start, end |-> start + Len(TemplateTokens(item)),
      quasis |-> item.quasis, expressions |-> item.exprs]

\* The node of the i-th interpolation of a template, when it is itself a
\* tagged template.
NestedNode(node, i) ==
  LET e == node.expressions[i]
      start == node.end - Len(TemplateTail(node.quasis, node.expressions, i)) + 1
  IN [type |-> "TaggedTemplateExpression",
      tag |-> [type |-> "Identifier", name |-> e.tag],
      start |-> start, end |-> start + Len(ExprTokens(e)),
      quasis |-> <<e.quasi>>, expressions |-> <<>>]

\* The visitor's callbacks for the tagged templates nested in the
\* interpolations i.. of node, in traversal order.
RECURSIVE NestedEvents(_, _)
NestedEvents(node, i) ==
  IF i > Len(node.expressions) THEN <<>>
  ELSE (IF node.expressions[i].type = "TaggedTemplateExpression"
        THEN <<[ev |-> "TaggedTemplateExpression", node |-> NestedNode(node, i)]>>
        ELSE <<>>)
       \o NestedEvents(node, i + 1)

\* The callbacks Visitor.visit makes for one statement: a declarator before
\* its initialiser, a template before the templates inside it.
ItemEvents(item, offset) ==
  CASE item.k = "lit" ->
         <<[ev |-> "VariableDeclarator", id |-> item.name,
            init |-> [type |-> "Literal", typeof |-> item.typeof,
                      value |-> item.value]]>>
    [] item.k = "tpl" ->
         LET node == TemplateNode(item, offset)
         IN (IF item.name # ""
             THEN <<[ev |-> "VariableDeclarator", id |-> item.name, init |-> node]>>
             ELSE <<>>)
            \o <<[ev |-> "TaggedTemplateExpression", node |-> node]>>
            \o NestedEvents(node, 1)
    [] OTHER -> <<>>

RECURSIVE ProgramEvents(_, _)
ProgramEvents(items, offset) ==
  IF items = <<>> THEN <<>>
  ELSE ItemEvents(Head(items), offset)
       \o ProgramEvents(Tail(items), offset + Len(ItemTokens(Head(items))))

RECURSIVE StaticImports(_)
StaticImports(items) ==
  IF items = <<>> THEN <<>>
  ELSE (IF Head(items).k = "import"
        THEN <<[moduleRequest |-> Head(items).source,
                localName |-> Head(items).local,
                importName |-> [kind |-> Head(items).kind,
                                name |-> Head(items).imported]]>>
        ELSE <<>>)
       \o StaticImports(Tail(items))

\* The export entries: one per exported declaration, one per export list.
RECURSIVE StaticExports(_)
StaticExports(items) ==
  IF items = <<>> THEN <<>>
  ELSE LET it == Head(items)
       IN (IF it.k \in {"lit", "tpl"} /\ it.exported /\ it.name # ""
           THEN <<[localName |-> [kind |-> "Name", name |-> it.name],
                   exportName |-> [kind |-> "Name", name |-> it.name],
                   importName |-> [kind |-> "None"]]>>
           ELSE IF it.k = "export" /\ it.from = ""
           THEN <<[localName |-> [kind |-> "Name", name |-> it.local],
                   exportName |-> [kind |-> "Name", name |-> it.exported],
                   importName |-> [kind |-> "None"]]>>
           ELSE IF it.k = "export"
           THEN <<[localName |-> [kind |-> "None"],
                   exportName |-> [kind |-> "Name", name |-> it.exported],
                   importName |-> [kind |-> "Name", name |-> it.local]]>>
           ELSE <<>>)
          \o StaticExports(Tail(items))

parseSync(sourceText) ==
  IF Panicked(sourceText)
  THEN [events |-> <<>>, staticImports |-> <<>>, staticExports |-> <<>>,
        errors |-> TRUE]
  ELSE [events |-> ProgramEvents(sourceText, 0),
        staticImports |-> StaticImports(sourceText),
        staticExports |-> StaticExports(sourceText),
        errors |-> HasSyntaxError(sourceText)]

\* ------------------------------------------------------------- parseFile
\* A Map, as a function; set(k, v) replaces or adds the entry of k.
EmptyMap == [k \in {} |-> <<>>]

MapSet(m, k, v) == [x \in DOMAIN m \cup {k} |-> IF x = k THEN v ELSE m[x]]

\* importedIdentifiers after the first n import entries.
RECURSIVE CollectImports(_, _)
CollectImports(entries, n) ==
  IF n = 0 THEN EmptyMap
  ELSE LET rest == CollectImports(entries, n - 1)
           entry == entries[n]
       IN IF entry.importName.kind = "Name"
          THEN MapSet(rest, entry.localName,
                      [source |-> entry.moduleRequest,
                       imported |-> entry.importName.name])
          ELSE rest

\* localNameToExportedNameMap after the first n export entries.
RECURSIVE CollectExports(_, _)
CollectExports(entries, n) ==
  IF n = 0 THEN EmptyMap
  ELSE LET rest == CollectExports(entries, n - 1)
           entry == entries[n]
       IN IF entry.importName.kind # "None" THEN rest
          ELSE IF entry.exportName.kind = "Name" /\ entry.localName.kind = "Name"
          THEN MapSet(rest, entry.localName.name, entry.exportName.name)
          ELSE rest

\* A variant of the key without the declaration index.
ClassNameKeyWithoutIndex(relativePath, index, localName) ==
  relativePath \o ":" \o (IF localName = "" THEN "undefined" ELSE localName)

\* The key that is hashed into a class name; localName "" is undefined.
ClassNameKey(relativePath, index, localName) ==
  relativePath \o ":" \o ToString(index) \o ":"
  \o (IF localName = "" THEN "undefined" ELSE localName)

\* A variant that numbers declarations across the files analysed so far.
GenerateClassNameCounting(relativePath, index, localName) ==
  classPrefix
  \o hashText(ClassNameKey(relativePath,
                           index + Cardinality(DOMAIN parsedFileInfoCache),
                           localName))

GenerateClassName(relativePath, index, localName) ==
  classPrefix \o hashText(ClassNameKey(relativePath, index, localName))

\* A variant that keeps the first value recorded for a name.
recordIdentifierOnce(acc, exportedNames, localName, value) ==
  IF localName \in DOMAIN acc.localIdentifiers THEN acc
  ELSE [acc EXCEPT
          !.localIdentifiers = MapSet(@, localName, value),
          !.exportNameToValueMap =
             IF localName \in DOMAIN exportedNames
             THEN MapSet(@, exportedNames[localName], value)
             ELSE @]

\* The analysis in progress: acc holds declarations, localIdentifiers,
\* exportNameToValueMap and taggedTemplateExpressionFromVariableDeclarator
\* (the start offsets of its nodes).
recordIdentifierWithValue(acc, exportedNames, localName, value) ==
  [acc EXCEPT
     !.localIdentifiers = MapSet(@, localName, value),
     !.exportNameToValueMap =
        IF localName \in DOMAIN exportedNames
        THEN MapSet(@, exportedNames[localName], value)
        ELSE @]

handleTaggedTemplateExpression(acc, exportedNames, relativePath, localName, node) ==
  IF ~(node.tag.type = "Identifier" /\ node.tag.name = "css") THEN acc
  ELSE LET index == Len(acc.declarations)
           className == GenerateClassName(relativePath, index, localName)
           pushed == [acc EXCEPT !.declarations =
                        Append(@, [className |-> className, node |-> node,
                                   hasInterpolations |-> Len(node.expressions) > 0])]
       IN IF localName # ""
          THEN recordIdentifierWithValue(pushed, exportedNames, localName, <<className>>)
          ELSE pushed

\* A variant that does not remember the templates of variable declarators.
VisitEventUnremembered(acc, exportedNames, relativePath, event) ==
  IF event.ev = "VariableDeclarator"
  THEN IF event.init.type = "TaggedTemplateExpression"
       THEN handleTaggedTemplateExpression(acc, exportedNames, relativePath,
                                           event.id, event.init)
       ELSE IF event.init.type = "Literal"
               /\ event.init.typeof \in {"string", "number"}
       THEN recordIdentifierWithValue(acc, exportedNames, event.id, event.init.value)
       ELSE acc
  ELSE handleTaggedTemplateExpression(acc, exportedNames, relativePath, "", event.node)

\* One callback of the visitor.
VisitEvent(acc, exportedNames, relativePath, event) ==
  IF event.ev = "VariableDeclarator"
  THEN IF event.init.type = "TaggedTemplateExpression"
       THEN handleTaggedTemplateExpression(
              [acc EXCEPT !.fromDeclarator = @ \cup {event.init.start}],
              exportedNames, relativePath, event.id, event.init)
       ELSE IF event.init.type = "Literal"
               /\ event.init.typeof \in {"string", "number"}
       THEN recordIdentifierWithValue(acc, exportedNames, event.id, event.init.value)
       ELSE acc
  ELSE IF event.node.start \notin acc.fromDeclarator
  THEN handleTaggedTemplateExpression(acc, exportedNames, relativePath, "", event.node)
  ELSE acc

RECURSIVE Visit(_, _, _, _)
Visit(events, n, exportedNames, relativePath) ==
  IF n = 0
  THEN [declarations |-> <<>>, localIdentifiers |-> EmptyMap,
        exportNameToValueMap |-> EmptyMap, fromDeclarator |-> {}]
  ELSE VisitEvent(Visit(events, n - 1, exportedNames, relativePath),
                  exportedNames, relativePath, events[n])

\* The ParsedFileInfo parseFile computes from a file's text.
Analyze(filePath, sourceText) ==
  LET parseResult == parseSync(sourceText)
      exportedNames ==
        CollectExports(parseResult.staticExports, Len(parseResult.staticExports))
      visited == Visit(parseResult.events, Len(parseResult.events),
                       exportedNames, RelativePath(filePath))
  IN [declarations |-> visited.declarations,
      localIdentifiers |-> visited.localIdentifiers,
      importedIdentifiers |->
        CollectImports(parseResult.staticImports, Len(parseResult.staticImports)),
      exportNameToValueMap |-> visited.exportNameToValueMap]

\* ---------------------------------------------------- extractCssFromCode
\* An optional value: None is undefined, Some(v) is v.
None == <<>>

Some(v) == <<v>>

\* The transient lists of one extraction, and the position of pass 2:
\* declaration d (from 1), loop index i (from 1), the content built so far.
NewExtraction ==
  [cssExtractions |-> <<>>, replacements |-> <<>>, d |-> 1, i |-> 1,
   cssContent |-> <<>>, at |-> "pass2", pending |-> [source |-> "", imported |-> ""],
   resolutions |-> <<>>]

addProcessedDeclaration(ex, declaration, cssContent) ==
  [ex EXCEPT
     !.cssExtractions =
        Append(@, [className |-> declaration.className,
                   cssContent |-> Trim(cssContent),
                   sourcePosition |-> declaration.node.start]),
     !.replacements =
        Append(@, [start |-> declaration.node.start, end |-> declaration.node.end,
                   className |-> declaration.className])]

\* Pass 1 over the first n declarations: those without interpolations.
RECURSIVE Pass1(_, _)
Pass1(declarations, n) ==
  IF n = 0 THEN NewExtraction
  ELSE LET ex == Pass1(declarations, n - 1)
           declaration == declarations[n]
       IN IF declaration.hasInterpolations THEN ex
          ELSE addProcessedDeclaration(ex, declaration, declaration.node.quasis[1])

\* Pass 2 leaves the current declaration unresolved (allResolved = false).
SkipDeclaration(ex) == [ex EXCEPT !.d = @ + 1, !.i = 1, !.cssContent = <<>>]

\* Pass 2 appends a resolved value and goes to the next loop index.
AppendResolved(ex, value) == [ex EXCEPT !.i = @ + 1, !.cssContent = @ \o value]

\* A variant of pass 2 that asks the host for every imported name, bound in
\* the file or not.
RECURSIVE Pass2ImportsFirst(_, _)
Pass2ImportsFirst(info, ex) ==
  IF ex.d > Len(info.declarations) THEN [ex EXCEPT !.at = "end"]
  ELSE
    LET declaration == info.declarations[ex.d]
        quasis == declaration.node.quasis
        expressions == declaration.node.expressions
    IN IF ~declaration.hasInterpolations THEN Pass2ImportsFirst(info, SkipDeclaration(ex))
       ELSE IF ex.i > Len(quasis)
       THEN Pass2ImportsFirst(info, SkipDeclaration(
                          addProcessedDeclaration(ex, declaration, ex.cssContent)))
       ELSE
         LET content == ex.cssContent \o quasis[ex.i]
             withQuasi == [ex EXCEPT !.cssContent = content]
         IN IF ex.i > Len(expressions)
            THEN Pass2ImportsFirst(info, [withQuasi EXCEPT !.i = @ + 1])
            ELSE IF expressions[ex.i].type # "Identifier"
            THEN Pass2ImportsFirst(info, SkipDeclaration(ex))
            ELSE IF expressions[ex.i].name \in DOMAIN info.importedIdentifiers
            THEN [withQuasi EXCEPT
                    !.at = "resolve",
                    !.pending = info.importedIdentifiers[expressions[ex.i].name]]
            ELSE IF expressions[ex.i].name \in DOMAIN info.localIdentifiers
            THEN Pass2ImportsFirst(info, AppendResolved(withQuasi,
                                info.localIdentifiers[expressions[ex.i].name]))
            ELSE Pass2ImportsFirst(info, SkipDeclaration(ex))

\* A variant of pass 2 that goes on past an interpolation that is not an
\* identifier, adding nothing for it.
RECURSIVE Pass2AnyExpression(_, _)
Pass2AnyExpression(info, ex) ==
  IF ex.d > Len(info.declarations) THEN [ex EXCEPT !.at = "end"]
  ELSE
    LET declaration == info.declarations[ex.d]
        quasis == declaration.node.quasis
        expressions == declaration.node.expressions
    IN IF ~declaration.hasInterpolations THEN Pass2AnyExpression(info, SkipDeclaration(ex))
       ELSE IF ex.i > Len(quasis)
       THEN Pass2AnyExpression(info, SkipDeclaration(
                          addProcessedDeclaration(ex, declaration, ex.cssContent)))
       ELSE
         LET content == ex.cssContent \o quasis[ex.i]
             withQuasi == [ex EXCEPT !.cssContent = content]
         IN IF ex.i > Len(expressions)
            THEN Pass2AnyExpression(info, [withQuasi EXCEPT !.i = @ + 1])
            ELSE IF expressions[ex.i].type # "Identifier"
            THEN Pass2AnyExpression(info, AppendResolved(withQuasi, <<>>))
            ELSE IF expressions[ex.i].name \in DOMAIN info.localIdentifiers
            THEN Pass2AnyExpression(info, AppendResolved(withQuasi,
                                info.localIdentifiers[expressions[ex.i].name]))
            ELSE IF expressions[ex.i].name \in DOMAIN info.importedIdentifiers
            THEN [withQuasi EXCEPT
                    !.at = "resolve",
                    !.pending = info.importedIdentifiers[expressions[ex.i].name]]
            ELSE Pass2AnyExpression(info, SkipDeclaration(ex))

\* Pass 2 from its position, up to the end of the declarations or to the
\* first interpolation whose identifier is imported and not local, where
\* resolveValue awaits the host.
RECURSIVE Pass2(_, _)
Pass2(info, ex) ==
  IF ex.d > Len(info.declarations) THEN [ex EXCEPT !.at = "end"]
  ELSE
    LET declaration == info.declarations[ex.d]
        quasis == declaration.node.quasis
        expressions == declaration.node.expressions
    IN IF ~declaration.hasInterpolations THEN Pass2(info, SkipDeclaration(ex))
       ELSE IF ex.i > Len(quasis)
       THEN Pass2(info, SkipDeclaration(
                          addProcessedDeclaration(ex, declaration, ex.cssContent)))
       ELSE
         LET content == ex.cssContent \o quasis[ex.i]
             withQuasi == [ex EXCEPT !.cssContent = content]
         IN IF ex.i > Len(expressions) THEN Pass2(info, [withQuasi EXCEPT !.i = @ + 1])
            ELSE IF expressions[ex.i].type # "Identifier"
            THEN Pass2(info, SkipDeclaration(ex))
            ELSE IF expressions[ex.i].name \in DOMAIN info.localIdentifiers
            THEN Pass2(info, AppendResolved(withQuasi,
                                info.localIdentifiers[expressions[ex.i].name]))
            ELSE IF expressions[ex.i].name \in DOMAIN info.importedIdentifiers
            THEN [withQuasi EXCEPT
                    !.at = "resolve",
                    !.pending = info.importedIdentifiers[expressions[ex.i].name]]
            ELSE Pass2(info, SkipDeclaration(ex))

\* A variant that takes a name the imported file does not export as
\* resolved, with an empty value.
ResumeAnyway(info, ex, resolvedValue, outcome) ==
  LET logged == [ex EXCEPT !.resolutions =
                   Append(@, [d |-> ex.d, outcome |-> outcome])]
  IN Pass2(info, AppendResolved(logged, IF resolvedValue = None THEN <<>>
                                        ELSE resolvedValue[1]))

\* Pass 2 resumes with what resolveValue returned for the imported name.
Resume(info, ex, resolvedValue, outcome) ==
  LET logged == [ex EXCEPT !.resolutions =
                   Append(@, [d |-> ex.d, outcome |-> outcome])]
  IN IF resolvedValue = None THEN Pass2(info, SkipDeclaration(logged))
     ELSE Pass2(info, AppendResolved(logged, resolvedValue[1]))

\* Array.prototype.sort on items paired with a numeric key, <<key, item>>:
\* ascending by key, stable.
RECURSIVE InsertByKey(_, _)
InsertByKey(sorted, x) ==
  IF sorted = <<>> THEN <<x>>
  ELSE IF sorted[Len(sorted)][1] <= x[1] THEN Append(sorted, x)
  ELSE Append(InsertByKey(SubSeq(sorted, 1, Len(sorted) - 1), x),
              sorted[Len(sorted)])

RECURSIVE SortByKey(_, _)
SortByKey(pairs, n) ==
  IF n = 0 THEN <<>> ELSE InsertByKey(SortByKey(pairs, n - 1), pairs[n])

\* A variant that sorts the replacements by ascending start.
SortReplacementsAscending(replacements) ==
  LET pairs == [n \in 1..Len(replacements) |->
                  <<replacements[n].start, replacements[n]>>]
      sorted == SortByKey(pairs, Len(pairs))
  IN [n \in 1..Len(sorted) |-> sorted[n][2]]

\* replacements.sort((a, b) => b.start - a.start)
SortReplacements(replacements) ==
  LET pairs == [n \in 1..Len(replacements) |->
                  <<0 - replacements[n].start, replacements[n]>>]
      sorted == SortByKey(pairs, Len(pairs))
  IN [n \in 1..Len(sorted) |-> sorted[n][2]]

\* A variant that leaves the extractions in the order the passes made them.
SortExtractionsNot(cssExtractions) == cssExtractions

\* cssExtractions.sort((a, b) => a.sourcePosition - b.sourcePosition)
SortExtractions(cssExtractions) ==
  LET pairs == [n \in 1..Len(cssExtractions) |->
                  <<cssExtractions[n].sourcePosition, cssExtractions[n]>>]
      sorted == SortByKey(pairs, Len(pairs))
  IN [n \in 1..Len(sorted) |-> sorted[n][2]]

Quoted(className) == "'" \o className \o "'"

\* One replacement: slice(0, start) + quoted class name + slice(end).
Splice(code, r) ==
  Slice(code, 0, r.start) \o <<Quoted(r.className)>> \o SliceFrom(code, r.end)

\* The replacements applied in the order given, the first one first.
RECURSIVE ApplyReplacements(_, _)
ApplyReplacements(code, replacements) ==
  IF replacements = <<>> THEN code
  ELSE ApplyReplacements(Splice(code, Head(replacements)), Tail(replacements))

\* A variant that never reports an unprocessed block.
HasUnprocessedCssBlocksNever(declarations, replacements) == FALSE

HasUnprocessedCssBlocks(declarations, replacements) ==
  Len(declarations) > Len(replacements)

RuleBlock(className, cssContent) ==
  <<"." \o className \o " {\n  ">> \o cssContent \o <<"\n}">>

\* A variant that emits a block for every extraction, empty or not.
RECURSIVE CssBlocksAll(_)
CssBlocksAll(cssExtractions) ==
  IF cssExtractions = <<>> THEN <<>>
  ELSE <<RuleBlock(Head(cssExtractions).className, Head(cssExtractions).cssContent)>>
       \o CssBlocksAll(Tail(cssExtractions))

\* cssBlocks: one block per extraction with non-empty content.
RECURSIVE CssBlocks(_)
CssBlocks(cssExtractions) ==
  IF cssExtractions = <<>> THEN <<>>
  ELSE (IF Head(cssExtractions).cssContent # <<>>
        THEN <<RuleBlock(Head(cssExtractions).className,
                         Head(cssExtractions).cssContent)>>
        ELSE <<>>)
       \o CssBlocks(Tail(cssExtractions))

\* What extractCssFromCode returns once both passes are over.
ExtractionResult(code, info, ex) ==
  IF Len(ex.replacements) = 0
  THEN [transformedCode |-> code, hasExtractions |-> FALSE, cssContent |-> <<>>,
        hasUnprocessedCssBlocks |-> FALSE]
  ELSE [transformedCode |-> ApplyReplacements(code, SortReplacements(ex.replacements)),
        hasExtractions |-> TRUE,
        cssContent |-> Join(CssBlocks(SortExtractions(ex.cssExtractions)), <<"\n\n">>),
        hasUnprocessedCssBlocks |->
          HasUnprocessedCssBlocks(info.declarations, ex.replacements)]

\* ------------------------------------------------------ transform.handler
\* The text matched by /import\s+{\s*css\s*}\s+from\s+['"]ecij['"];?\s*/.
CanonicalImport == ItemTokens(Import("css", "Name", "css", "ecij"))[1]

\* The tokens that contain the characters ecij.
MentionsEcij(token) ==
  token \in {CanonicalImport, ItemTokens(Comment("ecij"))[1]}

\* A variant that takes every text to mention ecij.
IncludesEcijAlways(code) == TRUE

\* code.includes('ecij')
IncludesEcij(code) == \E n \in 1..Len(code) : MentionsEcij(code[n])

removeImport(code) == SelectSeq(code, LAMBDA token : token # CanonicalImport)

JsonStringify(text) == "\"" \o text \o "\""

addCssImport(code, cssModuleId) ==
  <<"import " \o JsonStringify(cssModuleId) \o ";\n\n">> \o code

\* id with its query removed.
RECURSIVE IndexOf(_, _, _)
IndexOf(s, c, from) ==
  IF from > Len(s) THEN -1
  ELSE IF s[from] = c THEN from - 1
  ELSE IndexOf(s, c, from + 1)

CleanId(id) ==
  LET queryIndex == IndexOf(id, "?", 1)
  IN IF queryIndex = -1 THEN id ELSE Slice(id, 0, queryIndex)

\* A variant of the id without the hash of the content.
CssModuleIdWithoutHash(cleanId, cssContent) == Flatten(cleanId) \o ".css"

CssModuleId(cleanId, cssContent) ==
  Flatten(cleanId) \o "." \o hashText(Flatten(cssContent)) \o ".css"

\* A variant of the handler's last part that registers the style text and
\* prepends its import also when the style text is empty.
HandlerReturnAlwaysRegisters(cleanId, r, store) ==
  IF ~r.hasExtractions THEN [kind |-> "null", code |-> <<>>, store |-> store]
  ELSE
    LET cssModuleId == CssModuleId(cleanId, r.cssContent)
        withCss == addCssImport(r.transformedCode, cssModuleId)
        finalCode == IF ~r.hasUnprocessedCssBlocks THEN removeImport(withCss)
                     ELSE withCss
    IN [kind |-> "code", code |-> finalCode,
        store |-> MapSet(store, cssModuleId, r.cssContent)]

\* What the handler does after extractCssFromCode has returned r: the text it
\* returns (null when nothing was extracted) and the virtual-module store.
HandlerReturn(cleanId, r, store) ==
  IF ~r.hasExtractions THEN [kind |-> "null", code |-> <<>>, store |-> store]
  ELSE
    LET cssModuleId == CssModuleId(cleanId, r.cssContent)
        withCss == IF r.cssContent # <<>>
                   THEN addCssImport(r.transformedCode, cssModuleId)
                   ELSE r.transformedCode
        finalCode == IF ~r.hasUnprocessedCssBlocks THEN removeImport(withCss)
                     ELSE withCss
    IN [kind |-> "code", code |-> finalCode,
        store |-> IF r.cssContent # <<>> THEN MapSet(store, cssModuleId, r.cssContent)
                  ELSE store]

\* ---------------------------------------------------------- the project
\* Statements a file body is made of.
PlainCss == Tpl("x", "css", <<<<" ", "color:red;", " ">>>>, <<>>, TRUE)
InlineCss == Tpl("", "css", <<<<"margin:0;">>>>, <<>>, FALSE)
EmptyCss == Tpl("e", "css", <<<<" ">>>>, <<>>, FALSE)
RefCss == Tpl("y", "css", <<<<"color:">>, <<";">>>>, <<Id("v")>>, FALSE)
ComplexCss == Tpl("z", "css", <<<<"width:">>, <<"px;">>>>, <<Complex>>, FALSE)
NestedCss ==
  Tpl("w", "css", <<<<"&.">>, <<"{}">>>>, <<Nested(<<"color:blue;">>)>>, FALSE)
LitV == Lit("v", "string", <<"red">>, FALSE)
OtherTag == Tpl("u", "other", <<<<"not css">>>>, <<>>, FALSE)

Stmts ==
  {PlainCss, InlineCss, EmptyCss, RefCss, ComplexCss, NestedCss, LitV, OtherTag,
   Garbage(TRUE), Garbage(FALSE)}

ImportCss == Import("css", "Name", "css", "ecij")
ImportFakeCss == Import("css", "Name", "css", "./fake")
ImportV == Import("v", "Name", "v", "./b")

\* What a file starts with.
Headers ==
  {<<ImportCss>>, <<ImportCss, ImportV>>, <<Comment("ecij"), ImportFakeCss>>,
   <<ImportFakeCss>>}

\* The texts of a.ts.
FilesA == {header \o body : header \in Headers, body \in SeqsUpTo(Stmts, MaxStmts)}

\* The texts of b.ts: v exported as a literal, v exported as a css
\* declaration, v only re-exported from a third file, v taken from a.ts.
FilesB ==
  {<<Lit("v", "string", <<"blue">>, TRUE)>>,
   <<ImportCss, PlainCss, Tpl("v", "css", <<<<"color:green;">>>>, <<>>, TRUE)>>,
   <<ExportList("v", "v", "./c")>>,
   <<ImportCss, Import("x", "Name", "x", "./a"),
     Tpl("v", "css", <<<<"&.">>, <<"{}">>>>, <<Id("x")>>, TRUE)>>}

\* A text that binds v and x twice each, imports v as well, and
\* interpolates v before and after its second binding.
Rebinding ==
  <<ImportCss, ImportV, LitV,
    Tpl("t", "css", <<<<"color:">>, <<";">>>>, <<Id("v")>>, FALSE),
    PlainCss,
    Lit("v", "number", <<"2">>, FALSE),
    Tpl("x", "css", <<<<"margin:0;">>>>, <<>>, FALSE),
    Tpl("y", "css", <<<<"z-index:">>, <<";&.">>, <<"{}">>>>, <<Id("v"), Id("x")>>, FALSE)>>

\* A text in which one css declaration interpolates the name of another
\* whose own interpolation is not an identifier.
Chained ==
  <<ImportCss, ComplexCss,
    Tpl("y", "css", <<<<"&.">>, <<"{}">>>>, <<Id("z")>>, FALSE)>>

\* A text that exports the css declaration x and binds x to a literal in
\* the body of a function.
Shadowing == <<ImportCss, PlainCss, NestedLit("x", "string", <<"red">>)>>

\* A few texts of a.ts, for the behaviours with several transforms.
FewFilesA ==
  {<<ImportCss, ImportV, PlainCss, RefCss>>,
   Rebinding,
   Chained,
   Shadowing,
   <<ImportCss, EmptyCss>>,
   <<ImportFakeCss, PlainCss>>}

\* The text the host passes to transform is the text on disk, or that text
\* after another plugin has put a statement in front of it.
OtherPlugin(items) == <<InlineCss>> \o items

\* What the host resolves a module specifier to, when it resolves it.
ResolveTarget(source) ==
  CASE source = "./a" -> Some(PathA)
    [] source = "./b" -> Some(PathB)
    [] OTHER -> None

\* ----------------------------------------------------- the invocations
NoInfo ==
  [declarations |-> <<>>, localIdentifiers |-> EmptyMap,
   importedIdentifiers |-> EmptyMap, exportNameToValueMap |-> EmptyMap]

NoExtraction ==
  [transformedCode |-> <<>>, hasExtractions |-> FALSE, cssContent |-> <<>>,
   hasUnprocessedCssBlocks |-> FALSE]

\* An invocation of the handler: pc is where it is ("resolve": awaiting
\* context.resolve, "read": awaiting readFile, "done": it has returned or
\* thrown); info is the analysis of its own file; reads are the analyses it
\* made of imported files.
NewTask(id, code) ==
  [pc |-> "start", id |-> id, code |-> code, info |-> NoInfo, ex |-> NewExtraction,
   resolvedId |-> <<>>, reads |-> <<>>, extraction |-> NoExtraction,
   returned |-> [kind |-> "pending", code |-> <<>>]]

Disk(a, b) == [p \in Paths |-> IF p = PathA THEN a ELSE b]

InitPlugin ==
  /\ parsedFileInfoCache = EmptyMap
  /\ extractedCssPerFile = EmptyMap
  /\ tasks = <<>>

Init ==
  /\ InitPlugin
  /\ \E a \in FewFilesA, b \in FilesB : disk = Disk(a, b)
  /\ host = [ids |-> Paths, calls |-> MaxTransforms]

\* One transform of a.ts, for every text of it.
InitExtract ==
  /\ InitPlugin
  /\ \E a \in FilesA, b \in FilesB : disk = Disk(a, b)
  /\ host = [ids |-> {PathA, PathA \o <<"?", "v=1">>}, calls |-> 1]

\* --------------------------------------------------------------- actions
\* Invocation n goes on with extraction state ex: it awaits the host, or
\* both passes are over and the handler returns.
Settle(all, n, ex) ==
  LET task == all[n]
  IN IF ex.at = "resolve"
     THEN /\ tasks' = [all EXCEPT ![n] = [task EXCEPT !.pc = "resolve", !.ex = ex]]
          /\ UNCHANGED extractedCssPerFile
     ELSE LET r == ExtractionResult(Render(task.code), task.info, ex)
              ret == HandlerReturn(CleanId(task.id), r, extractedCssPerFile)
          IN /\ tasks' = [all EXCEPT ![n] =
                            [task EXCEPT !.pc = "done", !.ex = ex, !.extraction = r,
                                         !.returned = [kind |-> ret.kind,
                                                       code |-> ret.code]]]
             /\ extractedCssPerFile' = ret.store

\* The host calls transform.handler(code, id).
Transform(id, code) ==
  /\ Len(tasks) < host.calls
  /\ UNCHANGED <<disk, host>>
  /\ LET cleanId == CleanId(id)
         n == Len(tasks) + 1
     IN IF ~IncludesEcij(Render(code))
        THEN /\ tasks' = Append(tasks, [NewTask(id, code) EXCEPT
                                          !.pc = "done", !.returned.kind = "null"])
             /\ UNCHANGED <<parsedFileInfoCache, extractedCssPerFile>>
        ELSE LET info == Analyze(cleanId, code)
                 ex == Pass2(info, Pass1(info.declarations, Len(info.declarations)))
             IN /\ parsedFileInfoCache' = MapSet(parsedFileInfoCache, cleanId, info)
                /\ Settle(Append(tasks, [NewTask(id, code) EXCEPT !.info = info]), n, ex)

\* A variant in which parseFile reads the resolved file whether the cache
\* has an entry for it or not.
HostResolveAlwaysReads(n) ==
  /\ tasks[n].pc = "resolve"
  /\ UNCHANGED <<disk, host, parsedFileInfoCache>>
  /\ \E resolvedId \in {None, ResolveTarget(tasks[n].ex.pending.source)} :
       IF resolvedId = None
       THEN Settle(tasks, n, Resume(tasks[n].info, tasks[n].ex, None, "unresolved module"))
       ELSE /\ tasks' = [tasks EXCEPT ![n].pc = "read", ![n].resolvedId = resolvedId[1]]
            /\ UNCHANGED extractedCssPerFile

\* context.resolve answers invocation n; parseFile then returns the cached
\* analysis of the resolved file, or starts reading the file.
HostResolve(n) ==
  /\ tasks[n].pc = "resolve"
  /\ UNCHANGED <<disk, host, parsedFileInfoCache>>
  /\ \E resolvedId \in {None, ResolveTarget(tasks[n].ex.pending.source)} :
       IF resolvedId = None
       THEN Settle(tasks, n, Resume(tasks[n].info, tasks[n].ex, None, "unresolved module"))
       ELSE IF resolvedId[1] \in DOMAIN parsedFileInfoCache
       THEN LET exports == parsedFileInfoCache[resolvedId[1]].exportNameToValueMap
                imported == tasks[n].ex.pending.imported
            IN IF imported \in DOMAIN exports
               THEN Settle(tasks, n, Resume(tasks[n].info, tasks[n].ex,
                                           Some(exports[imported]), "resolved"))
               ELSE Settle(tasks, n, Resume(tasks[n].info, tasks[n].ex,
                                           None, "no such export"))
       ELSE /\ tasks' = [tasks EXCEPT ![n].pc = "read", ![n].resolvedId = resolvedId[1]]
            /\ UNCHANGED extractedCssPerFile

\* context.fs.readFile answers invocation n with the text on disk; parseFile
\* analyses it and stores the analysis.
HostRead(n) ==
  /\ tasks[n].pc = "read"
  /\ UNCHANGED <<disk, host>>
  /\ LET filePath == tasks[n].resolvedId
         sourceText == disk[filePath]
         info == Analyze(filePath, sourceText)
         exports == info.exportNameToValueMap
         imported == tasks[n].ex.pending.imported
         read == [tasks EXCEPT ![n].reads =
                    Append(@, [filePath |-> filePath, sourceText |-> sourceText,
                               info |-> info])]
     IN /\ parsedFileInfoCache' = MapSet(parsedFileInfoCache, filePath, info)
        /\ IF imported \in DOMAIN exports
           THEN Settle(read, n, Resume(tasks[n].info, tasks[n].ex,
                                       Some(exports[imported]), "resolved"))
           ELSE Settle(read, n, Resume(tasks[n].info, tasks[n].ex,
                                       None, "no such export"))

\* context.fs.readFile rejects: nothing catches it, so the handler rejects.
HostReadFails(n) ==
  /\ tasks[n].pc = "read"
  /\ tasks' = [tasks EXCEPT
                 ![n].pc = "done", ![n].returned.kind = "error",
                 ![n].ex.resolutions =
                    Append(@, [d |-> tasks[n].ex.d, outcome |-> "read failed"])]
  /\ UNCHANGED <<disk, host, parsedFileInfoCache, extractedCssPerFile>>

InFlight == \E n \in 1..Len(tasks) : tasks[n].pc # "done"

\* A variant of buildEnd that clears the analysis cache only.
BuildEndCacheOnly ==
  /\ ~InFlight
  /\ parsedFileInfoCache' = EmptyMap
  /\ UNCHANGED <<extractedCssPerFile, disk, host, tasks>>

\* buildEnd: the host calls it once the build's transforms are over.
BuildEnd ==
  /\ ~InFlight
  /\ parsedFileInfoCache' = EmptyMap
  /\ extractedCssPerFile' = EmptyMap
  /\ UNCHANGED <<disk, host, tasks>>

\* resolveId(id) and load(id): what they return; they change nothing.
resolveId(id) == IF id \in DOMAIN extractedCssPerFile THEN Some([id |-> id]) ELSE None

load(id) ==
  IF id \in DOMAIN extractedCssPerFile THEN Some(extractedCssPerFile[id]) ELSE None

\* The ids the host asks the two hooks about: those the returned texts
\* import, and the path of a.ts.
HookIds ==
  {CssModuleId(CleanId(tasks[n].id), tasks[n].extraction.cssContent) :
     n \in {m \in 1..Len(tasks) : tasks[m].extraction.cssContent # <<>>}}
  \cup {Flatten(PathA)}

ResolveId(id) == resolveId(id) \in {None, Some([id |-> id])} /\ UNCHANGED vars

Load(id) == (load(id) = None \/ Len(load(id)) = 1) /\ UNCHANGED vars

Next ==
  \/ \E id \in host.ids : \E code \in {disk[CleanId(id)], OtherPlugin(disk[CleanId(id)])} :
       Transform(id, code)
  \/ \E n \in 1..Len(tasks) : HostResolve(n)
  \/ \E n \in 1..Len(tasks) : HostRead(n)
  \/ \E n \in 1..Len(tasks) : HostReadFails(n)
  \/ BuildEnd
  \/ \E id \in HookIds : ResolveId(id)
  \/ \E id \in HookIds : Load(id)

Spec == Init /\ [][Next]_vars

SpecExtract == InitExtract /\ [][Next]_vars

\* Invocation n awaits the host; the host's answer to it.
Waiting(n) == n <= Len(tasks) /\ tasks[n].pc \in {"resolve", "read"}

HostAnswers(n) ==
  n <= Len(tasks) /\ (HostResolve(n) \/ HostRead(n) \/ HostReadFails(n))

\* Weak fairness of the host's answer to invocation n, WF_vars(HostAnswers(n)),
\* written out: the answer is enabled exactly when the invocation waits.
HostIsFair(n) == ([]<>~Waiting(n)) \/ ([]<><<HostAnswers(n)>>_vars)

\* The host settles every promise of context.resolve and of readFile.
SpecLive ==
  Init /\ [][Next]_vars /\ \A n \in 1..MaxTransforms : HostIsFair(n)

\* ------------------------------------------------------------ properties
\* What the claims speak of, for invocation n of the handler.
Finished(n) == tasks[n].pc = "done"

\* The handler returned (a text, or null for no change) and did not throw.
Returned(n) == Finished(n) /\ tasks[n].returned.kind \in {"null", "code"}

\* The handler analysed its file (the text contains ecij).
Analysed(n) == IncludesEcij(Render(tasks[n].code))

\* The text the host goes on with: the returned text, or the text it
\* passed when the handler returned null.
OutputText(n) ==
  IF tasks[n].returned.kind = "code" THEN tasks[n].returned.code
  ELSE Render(tasks[n].code)

Declarations(n) == tasks[n].info.declarations

\* Declaration d of invocation n resolved: the extraction has a replacement
\* for its range.
Resolved(n, d) ==
  \E k \in 1..Len(tasks[n].ex.replacements) :
    /\ tasks[n].ex.replacements[k].start = Declarations(n)[d].node.start
    /\ tasks[n].ex.replacements[k].end = Declarations(n)[d].node.end

ResolvedSet(n) == {d \in 1..Len(Declarations(n)) : Resolved(n, d)}

UnresolvedSet(n) == {d \in 1..Len(Declarations(n)) : ~Resolved(n, d)}

HasToken(text, token) == \E k \in 1..Len(text) : text[k] = token

\* part occurs in text as a run of consecutive tokens.
OccursIn(part, text) ==
  \E k \in 0..(Len(text) - Len(part)) : SubSeq(text, k + 1, k + Len(part)) = part

\* The number of rule blocks of invocation n's style text: the tokens that
\* open a block for one of the file's class names.
BlockCount(n) ==
  Cardinality({k \in 1..Len(tasks[n].extraction.cssContent) :
                 \E d \in 1..Len(Declarations(n)) :
                   tasks[n].extraction.cssContent[k]
                     = RuleBlock(Declarations(n)[d].className, <<>>)[1]})

HasBlockFor(n, d) ==
  HasToken(tasks[n].extraction.cssContent,
           RuleBlock(Declarations(n)[d].className, <<>>)[1])

\* The trimmed content the extraction recorded for resolved declaration d.
ContentOf(n, d) ==
  LET k == CHOOSE k \in 1..Len(tasks[n].ex.cssExtractions) :
             tasks[n].ex.cssExtractions[k].sourcePosition
               = Declarations(n)[d].node.start
  IN tasks[n].ex.cssExtractions[k].cssContent

\* The id of the virtual module of invocation n, and the import of it.
ModuleIdOf(n) == CssModuleId(CleanId(tasks[n].id), tasks[n].extraction.cssContent)

ModuleImportOf(n) == addCssImport(<<>>, ModuleIdOf(n))[1]

\* The original text with only the range of declaration d replaced by its
\* quoted class name.
OnlyReplaced(n, d) ==
  LET text == Render(tasks[n].code)
      node == Declarations(n)[d].node
  IN SubSeq(text, 1, node.start)
     \o <<"'" \o Declarations(n)[d].className \o "'">>
     \o SubSeq(text, node.end + 1, Len(text))

\* ---- C1
ImportRemoved(n) == ~HasToken(OutputText(n), CanonicalImport)

\* C1 as stated: for every file with the import of css from ecij that the
\* handler has returned for, the import is removed if and only if every css
\* declaration of the file resolved (also for a file without declarations).
C1_AsStated ==
  \A n \in 1..Len(tasks) :
    (Returned(n) /\ HasToken(Render(tasks[n].code), CanonicalImport))
      => (ImportRemoved(n) <=> UnresolvedSet(n) = {})

\* C1 amended: the import is removed if and only if the file has at least
\* one css declaration and every css declaration of it resolved.
C1_ImportElision ==
  \A n \in 1..Len(tasks) :
    (Returned(n) /\ HasToken(Render(tasks[n].code), CanonicalImport))
      => (ImportRemoved(n)
            <=> (Len(Declarations(n)) > 0 /\ UnresolvedSet(n) = {}))

\* A file with three declarations: two resolved, one not, the import kept.
C1_Witness ==
  \E n \in 1..Len(tasks) :
    /\ Returned(n) /\ HasToken(Render(tasks[n].code), CanonicalImport)
    /\ Cardinality(ResolvedSet(n)) = 2
    /\ Cardinality(UnresolvedSet(n)) = 1
    /\ ~ImportRemoved(n)

\* ---- C2
OneOfEach(n) ==
  /\ Returned(n)
  /\ Len(Declarations(n)) = 2
  /\ Cardinality(ResolvedSet(n)) = 1

\* The returned text is the original with only the resolved declaration
\* replaced (after the import of the style module, when there is one).
ReplacesOnlyResolved(n) ==
  LET d == CHOOSE d \in ResolvedSet(n) : TRUE
  IN /\ tasks[n].returned.kind = "code"
     /\ tasks[n].returned.code
          = (IF tasks[n].extraction.cssContent # <<>> THEN <<ModuleImportOf(n)>>
             ELSE <<>>) \o OnlyReplaced(n, d)

\* C2 as stated: with one resolvable and one unresolvable declaration, only
\* the resolvable one is replaced and the style text has exactly one block.
C2_AsStated ==
  \A n \in 1..Len(tasks) :
    OneOfEach(n) => (ReplacesOnlyResolved(n) /\ BlockCount(n) = 1)

\* C2 amended: only the resolvable one is replaced, and the style text has
\* exactly one block when its trimmed content is not empty, and none when
\* it is empty.
C2_PartialFailure ==
  \A n \in 1..Len(tasks) :
    OneOfEach(n) =>
      LET d == CHOOSE d \in ResolvedSet(n) : TRUE
      IN /\ ReplacesOnlyResolved(n)
         /\ BlockCount(n) = (IF ContentOf(n, d) # <<>> THEN 1 ELSE 0)

\* One declaration resolved with a block, the other one left unresolved.
C2_Witness ==
  \E n \in 1..Len(tasks) :
    OneOfEach(n) /\ BlockCount(n) = 1 /\ tasks[n].returned.kind = "code"

\* ---- C3
\* C3: the tokens of every unresolved declaration's range occur unchanged in
\* the text the host goes on with, and the style text has no block for it.
C3_UnresolvedUntouched ==
  \A n \in 1..Len(tasks) :
    Returned(n) =>
      \A d \in UnresolvedSet(n) :
        /\ OccursIn(Slice(Render(tasks[n].code), Declarations(n)[d].node.start,
                          Declarations(n)[d].node.end),
                    OutputText(n))
        /\ ~HasBlockFor(n, d)

\* ---- C4
\* Invocation n met a failure while resolving an imported identifier.
ImportFailures == {"unresolved module", "read failed", "no such export"}

HadImportFailure(n) ==
  \E k \in 1..Len(tasks[n].ex.resolutions) :
    tasks[n].ex.resolutions[k].outcome \in ImportFailures

\* C4: when resolving an imported identifier fails in any of the three ways,
\* the transform still completes, the declaration that needed it is
\* unresolved, and every declaration without interpolations is rewritten.
C4_ImportFailureIsLocal ==
  \A n \in 1..Len(tasks) :
    (Finished(n) /\ HadImportFailure(n)) =>
      /\ Returned(n)
      /\ \A k \in 1..Len(tasks[n].ex.resolutions) :
           tasks[n].ex.resolutions[k].outcome \in ImportFailures
             => ~Resolved(n, tasks[n].ex.resolutions[k].d)
      /\ \A d \in 1..Len(Declarations(n)) :
           ~Declarations(n)[d].hasInterpolations => Resolved(n, d)

\* ---- C5
\* The analyses a state holds: those in the cache, and those the invocations
\* made of their own file and of the files they read.
AnalysesHeld ==
  {[filePath |-> p, info |-> parsedFileInfoCache[p]] : p \in DOMAIN parsedFileInfoCache}
  \cup {[filePath |-> CleanId(tasks[n].id), info |-> tasks[n].info] :
          n \in 1..Len(tasks)}
  \cup UNION {{[filePath |-> tasks[n].reads[k].filePath,
                  info |-> tasks[n].reads[k].info] : k \in 1..Len(tasks[n].reads)} :
                n \in 1..Len(tasks)}

\* C5: two declarations that differ in relative path or in index have
\* different class names.
C5_NoCollision ==
  \A a \in AnalysesHeld, b \in AnalysesHeld :
    \A i \in 1..Len(a.info.declarations), j \in 1..Len(b.info.declarations) :
      (RelativePath(a.filePath) # RelativePath(b.filePath) \/ i # j)
        => a.info.declarations[i].className # b.info.declarations[j].className

\* Two declarations of one file with the same variable name and the same
\* content, at indices 0 and 1.
C5_Witness ==
  \E a \in AnalysesHeld :
    /\ Len(a.info.declarations) = 2
    /\ a.info.declarations[1].node.quasis = a.info.declarations[2].node.quasis
    /\ DOMAIN a.info.localIdentifiers = {"x"}

\* Two declarations of different files with the same variable name, the
\* same content and the same index.
C5_WitnessAcrossFiles ==
  \E a \in AnalysesHeld, b \in AnalysesHeld :
    /\ a.filePath # b.filePath
    /\ Len(a.info.declarations) > 0 /\ Len(b.info.declarations) > 0
    /\ a.info.declarations[1].node.quasis = b.info.declarations[1].node.quasis
    /\ "x" \in DOMAIN a.info.localIdentifiers \cap DOMAIN b.info.localIdentifiers

\* ---- C6
\* The analyses the invocations made, each with the text it was made of.
AnalysesMade ==
  {[filePath |-> CleanId(tasks[n].id), sourceText |-> tasks[n].code,
    info |-> tasks[n].info] : n \in {m \in 1..Len(tasks) : Analysed(m)}}
  \cup UNION {{tasks[n].reads[k] : k \in 1..Len(tasks[n].reads)} :
                n \in 1..Len(tasks)}

ClassNames(info) ==
  [d \in 1..Len(info.declarations) |-> info.declarations[d].className]

Blank(content) == \A k \in 1..Len(content) : IsWhiteSpace(content[k])

\* Declaration d of invocation n resolved to white space only.
ResolvedEmpty(n, d) == Resolved(n, d) /\ Blank(ContentOf(n, d))

\* The returned text of invocation n starts with the import of a style
\* module.
ImportPrepended(n) ==
  /\ tasks[n].returned.kind = "code"
  /\ tasks[n].returned.code # <<>>
  /\ tasks[n].returned.code[1] = ModuleImportOf(n)

\* C7: a declaration that resolved to empty content has its code site
\* replaced by its quoted class name and no rule block; when every resolved
\* declaration of the file is such a one, no style module is registered and
\* no import of one is prepended.
C7_EmptyContent ==
  \A n \in 1..Len(tasks) :
    Returned(n) =>
      /\ \A d \in 1..Len(Declarations(n)) :
           ResolvedEmpty(n, d) =>
             /\ tasks[n].returned.kind = "code"
             /\ HasToken(tasks[n].returned.code, Quoted(Declarations(n)[d].className))
             /\ ~HasBlockFor(n, d)
      /\ (ResolvedSet(n) # {} /\ \A d \in ResolvedSet(n) : ResolvedEmpty(n, d))
           => /\ extractedCssPerFile = EmptyMap
              /\ ~ImportPrepended(n)
              /\ tasks[n].extraction.cssContent = <<>>

\* A file whose only resolved declaration is empty, next to an unresolved
\* one: the handler returned a text with the quoted class name in it.
C7_Witness ==
  \E n \in 1..Len(tasks) :
    /\ Returned(n)
    /\ ResolvedSet(n) # {} /\ UnresolvedSet(n) # {}
    /\ \A d \in ResolvedSet(n) : ResolvedEmpty(n, d)
    /\ tasks[n].returned.kind = "code"

\* ---- C8
\* The file of invocation n does not import css from ecij.
NoEcijBinding(n) ==
  \A k \in 1..Len(tasks[n].code) : tasks[n].code[k] # ImportCss

\* C8: a file whose css is not the binding imported from ecij is returned
\* unchanged, without style text and without a style module.
C8_ForeignCssIgnored ==
  \A n \in 1..Len(tasks) :
    (Finished(n) /\ NoEcijBinding(n)) =>
      /\ tasks[n].returned.kind = "null"
      /\ tasks[n].extraction.cssContent = <<>>
      /\ tasks[n].ex.replacements = <<>>

\* ---- C9
\* C9: the transform of a text with a syntax error fails: the handler
\* throws, there is no rewritten text and no style text.
C9_SyntaxErrorIsFatal ==
  \A n \in 1..Len(tasks) :
    (Finished(n) /\ Analysed(n) /\ HasSyntaxError(tasks[n].code)) =>
      /\ tasks[n].returned.kind = "error"
      /\ tasks[n].extraction.cssContent = <<>>

\* ---- C10
\* Invocation n returns in this step.
Returns(n) ==
  /\ n \in 1..Len(tasks')
  /\ tasks'[n].pc = "done"
  /\ tasks'[n].returned.kind \in {"null", "code"}
  /\ (n > Len(tasks) \/ tasks[n].pc # "done")

\* What the step that returns invocation n leaves behind.
ReturnsWithModule(n) ==
  LET css == tasks'[n].extraction.cssContent
      id == CssModuleId(CleanId(tasks'[n].id), css)
  IN IF css # <<>>
     THEN /\ tasks'[n].returned.kind = "code"
          /\ tasks'[n].returned.code[1] = addCssImport(<<>>, id)[1]
          /\ id \in DOMAIN extractedCssPerFile'
          /\ extractedCssPerFile'[id] = css
     ELSE /\ (tasks'[n].returned.kind = "code"
              => \A k \in 1..Len(tasks'[n].returned.code) :
                   \A m \in DOMAIN extractedCssPerFile' :
                     tasks'[n].returned.code[k] # addCssImport(<<>>, m)[1])
          /\ extractedCssPerFile' = extractedCssPerFile

\* Every registered module stays registered with the same style text.
ModulesKept ==
  \A id \in DOMAIN extractedCssPerFile :
    /\ id \in DOMAIN extractedCssPerFile'
    /\ extractedCssPerFile'[id] = extractedCssPerFile[id]

\* C10: a transform that produces style text returns a text that starts
\* with the import of a module id and registers the style text under that
\* id, and one that produces none prepends no import and registers
\* nothing; every step other than buildEnd keeps every registered module
\* and its text, so that resolveId claims the id and load returns the text
\* until the next reset.
C10_ModuleServedUntilReset ==
  [][/\ \A n \in 1..(Len(tasks) + 1) : Returns(n) => ReturnsWithModule(n)
     /\ (BuildEnd \/ ModulesKept)]_vars

\* The first transform produced style text, a second one has returned
\* since, and the hooks still serve the module of the first.
C10_Witness ==
  /\ Len(tasks) = 2 /\ Returned(1) /\ Returned(2)
  /\ tasks[1].extraction.cssContent # <<>>
  /\ ImportPrepended(1)
  /\ resolveId(ModuleIdOf(1)) = Some([id |-> ModuleIdOf(1)])
  /\ load(ModuleIdOf(1)) = Some(tasks[1].extraction.cssContent)
  /\ ModuleIdOf(2) # ModuleIdOf(1)
  /\ tasks[2].extraction.cssContent # <<>>

\* ---- C11
\* This step removes an entry of the analysis cache or of the module store.
LosesEntry ==
  \/ \E p \in DOMAIN parsedFileInfoCache : p \notin DOMAIN parsedFileInfoCache'
  \/ \E id \in DOMAIN extractedCssPerFile : id \notin DOMAIN extractedCssPerFile'

\* C11: a step that removes an entry of the analysis cache or of the module
\* store is a buildEnd, and it leaves both of them empty, so that resolveId
\* and load return null for every id that was registered; no other step
\* removes an entry.
C11_ClearedOnlyWholesale ==
  [][LosesEntry =>
       /\ BuildEnd
       /\ parsedFileInfoCache' = EmptyMap
       /\ extractedCssPerFile' = EmptyMap
       /\ \A id \in DOMAIN extractedCssPerFile :
            resolveId(id)' = None /\ load(id)' = None]_vars

\* Both are empty after a transform that had filled both of them.
C11_Witness ==
  /\ parsedFileInfoCache = EmptyMap
  /\ extractedCssPerFile = EmptyMap
  /\ \E n \in 1..Len(tasks) :
       Returned(n) /\ Analysed(n) /\ tasks[n].extraction.cssContent # <<>>

\* ---- C12
\* This step replaces the analysis cached for path p by a different one,
\* with no reset in between.
Replaces(p) ==
  /\ p \in DOMAIN parsedFileInfoCache
  /\ p \in DOMAIN parsedFileInfoCache'
  /\ parsedFileInfoCache'[p] # parsedFileInfoCache[p]

\* This step is a call of the handler for path p, with the text the host
\* supplies for it.
SuppliesText(p) ==
  /\ Len(tasks') = Len(tasks) + 1
  /\ CleanId(tasks'[Len(tasks')].id) = p

\* C12: within a build, the analysis cached for a path is replaced only by
\* the analysis of a text the host supplies for that path, never by the
\* analysis of the text read from disk.
C12_NeverStale ==
  [][\A p \in Paths : Replaces(p) => SuppliesText(p)]_vars

\* ---- C13
\* The declarations of invocation n that resolved to non-empty content.
Emitting(n) == {d \in ResolvedSet(n) : ContentOf(n, d) # <<>>}

\* The declaration of S that has exactly k declarations of S starting
\* before it.
NthByStart(n, S, k) ==
  CHOOSE d \in S :
    Cardinality({e \in S : Declarations(n)[e].node.start
                             < Declarations(n)[d].node.start}) = k

\* The expected style text from the k-th emitting declaration (by start
\* offset) on: one block each, a blank line between two blocks.
RECURSIVE BlocksFrom(_, _)
BlocksFrom(n, k) ==
  LET S == Emitting(n)
      d == NthByStart(n, S, k)
      block == <<"." \o Declarations(n)[d].className \o " {\n  ">>
               \o ContentOf(n, d) \o <<"\n}">>
  IN IF k >= Cardinality(S) THEN <<>>
     ELSE IF k = Cardinality(S) - 1 THEN block
     ELSE block \o <<"\n\n">> \o BlocksFrom(n, k + 1)

\* C13: the style text of a file is one rule block per resolved declaration
\* with non-empty trimmed content, in ascending order of the declarations'
\* start offsets, with one blank line between consecutive blocks.
C13_StyleTextInSourceOrder ==
  \A n \in 1..Len(tasks) :
    Returned(n) => tasks[n].extraction.cssContent = BlocksFrom(n, 0)

\* A declaration resolved in pass 2 that starts before one resolved in
\* pass 1, both with content.
C13_Witness ==
  \E n \in 1..Len(tasks) :
    /\ Returned(n)
    /\ \E d \in Emitting(n), e \in Emitting(n) :
         /\ Declarations(n)[d].hasInterpolations
         /\ ~Declarations(n)[e].hasInterpolations
         /\ Declarations(n)[d].node.start < Declarations(n)[e].node.start

\* ---- C14
\* The files the text of invocation n imports from directly.
DirectTargets(n) ==
  {ResolveTarget(tasks[n].code[k].source)[1] :
     k \in {j \in 1..Len(tasks[n].code) :
              /\ tasks[n].code[j].k = "import"
              /\ ResolveTarget(tasks[n].code[j].source) # None}}

\* The names a text binds with a declarator of its own.
BoundNames(text) ==
  {text[k].name : k \in {j \in 1..Len(text) : text[j].k \in {"lit", "tpl"}}} \ {""}

\* Declaration d of invocation n interpolates a name that its file imports
\* and does not bind, from a file on disk that does not bind it either (it
\* re-exports it, or imports and exports it).
DependsOnForwardedName(n, d) ==
  \E i \in 1..Len(Declarations(n)[d].node.expressions) :
    LET e == Declarations(n)[d].node.expressions[i]
    IN /\ e.type = "Identifier"
       /\ e.name \notin BoundNames(tasks[n].code)
       /\ \E k \in 1..Len(tasks[n].code) :
            LET imp == tasks[n].code[k]
            IN /\ imp.k = "import" /\ imp.local = e.name
               /\ ResolveTarget(imp.source) # None
               /\ imp.imported \notin BoundNames(disk[ResolveTarget(imp.source)[1]])

\* A file that imports v and exports it.
ImportsAndExports == <<Import("v", "Name", "v", "./c"), ExportList("v", "v", "")>>

OneHop ==
  /\ Analyze(PathB, ImportsAndExports).exportNameToValueMap = EmptyMap
  /\ \A n \in 1..Len(tasks) :
       /\ Len(tasks[n].reads) <= Len(tasks[n].ex.resolutions)
       /\ \A k \in 1..Len(tasks[n].reads) :
            tasks[n].reads[k].filePath \in DirectTargets(n)
       /\ Finished(n) =>
            \A d \in 1..Len(Declarations(n)) :
              DependsOnForwardedName(n, d) => ~Resolved(n, d)

\* C14: an invocation reads only files its own text imports from, at most
\* one per resolution, a name the imported file only forwards is
\* unresolved, and every invocation finishes, whatever the import graph.
C14_OneHopTerminates ==
  /\ []OneHop
  /\ \A n \in 1..MaxTransforms :
       [](n <= Len(tasks) => <>(n <= Len(tasks) /\ Finished(n)))

\* The transform of a.ts has returned after reading b.ts, which only
\* re-exports the name a.ts needs.
C14_Witness ==
  \E n \in 1..Len(tasks) :
    /\ Returned(n) /\ CleanId(tasks[n].id) = PathA
    /\ Len(tasks[n].reads) = 1 /\ tasks[n].reads[1].filePath = PathB
    /\ \E d \in 1..Len(Declarations(n)) :
         DependsOnForwardedName(n, d) /\ ~Resolved(n, d)
    /\ ResolvedSet(n) # {}

\* The transform of a.ts has returned after reading b.ts, which imports
\* from a.ts.
C14_WitnessCycle ==
  \E n \in 1..Len(tasks) :
    /\ Returned(n) /\ CleanId(tasks[n].id) = PathA
    /\ Len(tasks[n].reads) = 1 /\ tasks[n].reads[1].filePath = PathB
    /\ \E k \in 1..Len(disk[PathB]) :
         disk[PathB][k].k = "import" /\ disk[PathB][k].source = "./a"

\* ---- C15
\* C15: when at least one declaration of the file did not resolve, the
\* extraction result's hasUnprocessedCssBlocks is true, also when no
\* declaration of the file resolved.
C15_FlagWheneverUnresolved ==
  \A n \in 1..Len(tasks) :
    (Returned(n) /\ Analysed(n) /\ UnresolvedSet(n) # {})
      => tasks[n].extraction.hasUnprocessedCssBlocks

\* ---- C16
\* The replacements of invocation n do not overlap.
NonOverlapping(n) ==
  \A j \in 1..Len(tasks[n].ex.replacements), k \in 1..Len(tasks[n].ex.replacements) :
    j # k => \/ tasks[n].ex.replacements[j].end <= tasks[n].ex.replacements[k].start
             \/ tasks[n].ex.replacements[k].end <= tasks[n].ex.replacements[j].start

\* The replacements whose range covers offset o of the original text.
Covering(replacements, o) ==
  {k \in 1..Len(replacements) :
     replacements[k].start <= o /\ o < replacements[k].end}

\* The text from offset o on, with every range substituted at once by its
\* quoted class name.
RECURSIVE SubstitutedFrom(_, _, _)
SubstitutedFrom(text, replacements, o) ==
  IF o >= Len(text) THEN <<>>
  ELSE LET covering == Covering(replacements, o)
       IN IF covering = {}
          THEN <<text[o + 1]>> \o SubstitutedFrom(text, replacements, o + 1)
          ELSE LET r == replacements[CHOOSE k \in covering : TRUE]
               IN <<"'" \o r.className \o "'">>
                  \o SubstitutedFrom(text, replacements, r.end)

RECURSIVE ReplacedLength(_, _)
ReplacedLength(replacements, k) ==
  IF k = 0 THEN 0
  ELSE replacements[k].end - replacements[k].start
       + ReplacedLength(replacements, k - 1)

\* C16: with non-overlapping ranges, the replacements applied one at a time
\* in descending order of start give the text in which every range of the
\* original is substituted at once by its quoted class name; its length is
\* the original length, less the replaced lengths, plus one inserted token
\* per range.
C16_SpliceIsSubstitution ==
  \A n \in 1..Len(tasks) :
    (Returned(n) /\ tasks[n].ex.replacements # <<>> /\ NonOverlapping(n)) =>
      LET text == Render(tasks[n].code)
          replacements == tasks[n].ex.replacements
          transformedCode == tasks[n].extraction.transformedCode
      IN /\ transformedCode = SubstitutedFrom(text, replacements, 0)
         /\ Len(transformedCode)
              = Len(text) - ReplacedLength(replacements, Len(replacements))
                + Len(replacements)

\* Three ranges replaced in one text, found in an order that is not the
\* order of their offsets.
C16_Witness ==
  \E n \in 1..Len(tasks) :
    /\ Returned(n) /\ NonOverlapping(n)
    /\ Len(tasks[n].ex.replacements) = 3
    /\ \E k \in 1..2 : tasks[n].ex.replacements[k].start
                          > tasks[n].ex.replacements[k + 1].start

\* ---- C17
\* The tagged templates of a text whose tag is the identifier css, each
\* with the name of the variable it initialises ("" when it initialises
\* none), in the order of their start offsets: the statements' own
\* templates, each followed by the templates in its interpolations.
RECURSIVE CssTemplatesOf(_, _)
CssTemplatesOf(items, offset) ==
  IF items = <<>> THEN <<>>
  ELSE LET item == Head(items)
           own == IF item.k = "tpl" /\ item.tag = "css"
                  THEN <<[start |-> offset + Len(TplPrefix(item)), name |-> item.name]>>
                  ELSE <<>>
           inner == IF item.k = "tpl"
                    THEN LET node == TemplateNode(item, offset)
                             nested == NestedEvents(node, 1)
                         IN [j \in 1..Len(nested) |->
                               [start |-> nested[j].node.start, name |-> ""]]
                    ELSE <<>>
       IN own \o inner
          \o CssTemplatesOf(Tail(items), offset + Len(ItemTokens(item)))

\* The templates the parser hands over: none when it gave up on the text.
ExpectedDeclarations(sourceText) ==
  IF Panicked(sourceText) THEN <<>> ELSE CssTemplatesOf(sourceText, 0)

\* C17: the declarations of an analysis are the css tagged templates of the
\* text, each exactly once, and the one at list position i has the class
\* name made with index i.
C17_EachTemplateOnce ==
  \A a \in AnalysesMade :
    LET expected == ExpectedDeclarations(a.sourceText)
        declarations == a.info.declarations
    IN /\ Len(declarations) = Len(expected)
       /\ \A i \in 1..Len(declarations) :
            /\ declarations[i].node.start = expected[i].start
            /\ declarations[i].node.tag.name = "css"
            /\ declarations[i].className
                 = classPrefix
                   \o hashText(RelativePath(a.filePath) \o ":" \o ToString(i - 1) \o ":"
                               \o (IF expected[i].name = "" THEN "undefined"
                                   ELSE expected[i].name))

\* An analysis of a text with a css template that initialises a variable,
\* a css template that initialises none, and a template of another tag.
C17_Witness ==
  \E a \in AnalysesMade :
    /\ Len(a.info.declarations) = 2
    /\ \E i \in 1..2, j \in 1..2 :
         /\ ExpectedDeclarations(a.sourceText)[i].name = ""
         /\ ExpectedDeclarations(a.sourceText)[j].name # ""
    /\ \E k \in 1..Len(a.sourceText) :
         a.sourceText[k].k = "tpl" /\ a.sourceText[k].tag # "css"

\* The concatenation of a sequence of sequences.
RECURSIVE Flatten2(_)
Flatten2(parts) == IF parts = <<>> THEN <<>> ELSE Head(parts) \o Flatten2(Tail(parts))

\* ---- C18
\* The names a text binds to a string or number literal or to a css
\* declaration (none when the parser gave up on the text).
LocalBindings(text) ==
  IF Panicked(text) THEN {}
  ELSE {text[k].name :
          k \in {j \in 1..Len(text) :
                   \/ text[j].k = "lit" /\ text[j].typeof \in {"string", "number"}
                   \/ text[j].k = "tpl" /\ text[j].tag = "css" /\ text[j].name # ""}}

\* The names a text imports by name.
ImportedNames(text) ==
  IF Panicked(text) THEN {}
  ELSE {text[k].local :
          k \in {j \in 1..Len(text) : text[j].k = "import" /\ text[j].kind = "Name"}}

\* The interpolations <<d, i>> of invocation n that are identifiers.
IdentifierSites(n) ==
  UNION {{<<d, i>> : i \in {j \in 1..Len(Declarations(n)[d].node.expressions) :
                              Declarations(n)[d].node.expressions[j].type = "Identifier"}} :
           d \in 1..Len(Declarations(n))}

NameAt(n, s) == Declarations(n)[s[1]].node.expressions[s[2]].name

\* C18: an invocation awaits the host only for an interpolated name that
\* its text imports and does not bind; it asks the host at most once for
\* each such interpolation, and so never for a text whose interpolated
\* names are all bound in it, whose values are those of the local
\* bindings.
C18_LocalFirst ==
  \A n \in 1..Len(tasks) :
    /\ Waiting(n) =>
         /\ <<tasks[n].ex.d, tasks[n].ex.i>> \in IdentifierSites(n)
         /\ NameAt(n, <<tasks[n].ex.d, tasks[n].ex.i>>)
              \in ImportedNames(tasks[n].code) \ LocalBindings(tasks[n].code)
    /\ Len(tasks[n].ex.resolutions)
         <= Cardinality({s \in IdentifierSites(n) :
                           NameAt(n, s) \notin LocalBindings(tasks[n].code)})
    /\ Len(tasks[n].reads) <= Len(tasks[n].ex.resolutions)
    /\ (Returned(n) /\ Analysed(n)) =>
         \A d \in 1..Len(Declarations(n)) :
           (/\ Declarations(n)[d].hasInterpolations
            /\ \A i \in 1..Len(Declarations(n)[d].node.expressions) :
                 /\ <<d, i>> \in IdentifierSites(n)
                 /\ NameAt(n, <<d, i>>) \in LocalBindings(tasks[n].code))
             => /\ Resolved(n, d)
                /\ ContentOf(n, d)
                     = Trim(Flatten2(
                         [i \in 1..Len(Declarations(n)[d].node.quasis) |->
                            Declarations(n)[d].node.quasis[i]
                            \o (IF i <= Len(Declarations(n)[d].node.expressions)
                                THEN tasks[n].info.localIdentifiers[NameAt(n, <<d, i>>)]
                                ELSE <<>>)]))

\* A text that imports v and binds it too: its transform has returned with
\* the declarations that interpolate v resolved, and the host was not asked.
C18_Witness ==
  \E n \in 1..Len(tasks) :
    /\ Returned(n)
    /\ "v" \in ImportedNames(tasks[n].code) \cap LocalBindings(tasks[n].code)
    /\ \E s \in IdentifierSites(n) : NameAt(n, s) = "v" /\ Resolved(n, s[1])
    /\ tasks[n].ex.resolutions = <<>>
    /\ tasks[n].reads = <<>>

\* ---- C19
\* The positions of the statements of a text that bind name to a string or
\* number literal or to a css declaration.
BindingsOf(text, name) ==
  {k \in {j \in 1..Len(text) : text[j].k \in {"lit", "tpl"}} :
     /\ text[k].name = name
     /\ \/ text[k].k = "lit" /\ text[k].typeof \in {"string", "number"}
        \/ text[k].k = "tpl" /\ text[k].tag = "css"}

\* The value of the binding of name that comes last in the text: the
\* literal as a string, or the class name of the css declaration.
LastValue(a, name) ==
  LET text == a.sourceText
      last == CHOOSE k \in BindingsOf(text, name) :
                \A j \in BindingsOf(text, name) : j <= k
      start == Len(Render(SubSeq(text, 1, last - 1))) + Len(TplPrefix(text[last]))
  IN IF text[last].k = "lit" THEN text[last].value
     ELSE LET d == CHOOSE d \in 1..Len(a.info.declarations) :
                     a.info.declarations[d].node.start = start
          IN <<a.info.declarations[d].className>>

\* The analysis invocation n made of its own text.
OwnAnalysis(n) ==
  [filePath |-> CleanId(tasks[n].id), sourceText |-> tasks[n].code,
   info |-> tasks[n].info]

\* C19: the value an analysis records for a name the text binds is that of
\* the last binding of the name in the text, and it is the value that
\* every interpolation of the name in the text gets.
C19_LastBindingWins ==
  /\ \A a \in AnalysesMade :
       \A name \in LocalBindings(a.sourceText) :
         /\ name \in DOMAIN a.info.localIdentifiers
         /\ a.info.localIdentifiers[name] = LastValue(a, name)
  /\ \A n \in 1..Len(tasks) :
       (Returned(n) /\ Analysed(n)) =>
         \A d \in 1..Len(Declarations(n)) :
           (/\ Declarations(n)[d].hasInterpolations
            /\ \A i \in 1..Len(Declarations(n)[d].node.expressions) :
                 /\ <<d, i>> \in IdentifierSites(n)
                 /\ NameAt(n, <<d, i>>) \in LocalBindings(tasks[n].code))
             => /\ Resolved(n, d)
                /\ ContentOf(n, d)
                     = Trim(Flatten2(
                         [i \in 1..Len(Declarations(n)[d].node.quasis) |->
                            Declarations(n)[d].node.quasis[i]
                            \o (IF i <= Len(Declarations(n)[d].node.expressions)
                                THEN LastValue(OwnAnalysis(n), NameAt(n, <<d, i>>))
                                ELSE <<>>)]))

\* A text that binds v to two literals and x to two css declarations, with
\* v interpolated before its second binding: every interpolation resolved.
C19_Witness ==
  \E n \in 1..Len(tasks) :
    /\ Returned(n)
    /\ Cardinality(BindingsOf(tasks[n].code, "v")) = 2
    /\ Cardinality(BindingsOf(tasks[n].code, "x")) = 2
    /\ \E s \in IdentifierSites(n) :
         /\ NameAt(n, s) = "v"
         /\ Resolved(n, s[1])
         /\ \E k \in BindingsOf(tasks[n].code, "v") :
              Declarations(n)[s[1]].node.start
                < Len(Render(SubSeq(tasks[n].code, 1, k - 1)))
    /\ UnresolvedSet(n) = {}

\* ---- C20
\* No statement of a text mentions ecij: neither an import from it nor a
\* comment about it.
WithoutEcij(items) ==
  \A k \in 1..Len(items) :
    /\ ~(items[k].k = "import" /\ items[k].source = "ecij")
    /\ ~(items[k].k = "comment" /\ items[k].text = "ecij")

\* C20: a call of the handler with a text that does not contain ecij
\* returns null at once, without an analysis of the text, and changes
\* neither the analysis cache nor the module store.
C20_SkipsTextWithoutEcij ==
  [][(/\ Len(tasks') = Len(tasks) + 1
      /\ WithoutEcij(tasks'[Len(tasks')].code))
       => /\ tasks'[Len(tasks')].pc = "done"
          /\ tasks'[Len(tasks')].returned = [kind |-> "null", code |-> <<>>]
          /\ tasks'[Len(tasks')].info = NoInfo
          /\ tasks'[Len(tasks')].reads = <<>>
          /\ parsedFileInfoCache' = parsedFileInfoCache
          /\ extractedCssPerFile' = extractedCssPerFile]_vars

\* A text with a css template and no mention of ecij was passed after
\* another transform had filled the cache and the store: null was
\* returned, and neither has an entry for it.
C20_Witness ==
  /\ Len(tasks) = 2 /\ Returned(1) /\ Returned(2)
  /\ tasks[1].extraction.cssContent # <<>>
  /\ WithoutEcij(tasks[2].code)
  /\ \E k \in 1..Len(tasks[2].code) :
       tasks[2].code[k].k = "tpl" /\ tasks[2].code[k].tag = "css"
  /\ tasks[2].returned.kind = "null"
  /\ parsedFileInfoCache # EmptyMap
  /\ extractedCssPerFile # EmptyMap

\* ---- C21
\* The outcome invocation n logs in this step for the resolution it waited
\* for ("" when it logs none).
Logs(n) ==
  IF Len(tasks'[n].ex.resolutions) > Len(tasks[n].ex.resolutions)
  THEN tasks'[n].ex.resolutions[Len(tasks[n].ex.resolutions) + 1].outcome
  ELSE ""

\* Invocation n calls the analyzer without text for the file its pending
\* import resolves to, and the analyzer answers from the cache.
AnswersFromCache(n) ==
  LET p == ResolveTarget(tasks[n].ex.pending.source)[1]
  IN /\ p \in DOMAIN parsedFileInfoCache
     /\ parsedFileInfoCache' = parsedFileInfoCache
     /\ tasks'[n].reads = tasks[n].reads
     /\ Logs(n) = (IF tasks[n].ex.pending.imported
                        \in DOMAIN parsedFileInfoCache[p].exportNameToValueMap
                   THEN "resolved" ELSE "no such export")

\* The analyzer, called without text for a path not in the cache, starts
\* to read the file.
StartsToRead(n) ==
  /\ tasks'[n].resolvedId \notin DOMAIN parsedFileInfoCache
  /\ parsedFileInfoCache' = parsedFileInfoCache

\* The analyzer has read the file: it stores the analysis of the text on
\* disk under the path, whatever the cache held for it.
StoresDiskAnalysis(n) ==
  LET p == tasks[n].resolvedId
  IN /\ p \in DOMAIN parsedFileInfoCache'
     /\ parsedFileInfoCache'[p] = Analyze(p, disk[p])
     /\ \A q \in DOMAIN parsedFileInfoCache \ {p} :
          q \in DOMAIN parsedFileInfoCache'
          /\ parsedFileInfoCache'[q] = parsedFileInfoCache[q]
     /\ Len(tasks'[n].reads) = Len(tasks[n].reads) + 1
     /\ tasks'[n].reads[Len(tasks'[n].reads)].info = parsedFileInfoCache'[p]

\* The handler calls the analyzer with the text it was passed: it stores
\* the analysis of that text under the path, whatever the cache held.
StoresSuppliedAnalysis ==
  LET new == tasks'[Len(tasks')]
      p == CleanId(new.id)
  IN /\ p \in DOMAIN parsedFileInfoCache'
     /\ parsedFileInfoCache'[p] = Analyze(p, new.code)
     /\ new.info = parsedFileInfoCache'[p]
     /\ \A q \in DOMAIN parsedFileInfoCache \ {p} :
          q \in DOMAIN parsedFileInfoCache'
          /\ parsedFileInfoCache'[q] = parsedFileInfoCache[q]

\* C21: the analyzer answers from the cache, reading and storing nothing,
\* exactly when it is called without text for a path that has an entry;
\* called without text for a path that has none it reads the file and
\* stores the analysis of the text on disk, and called with text it stores
\* the analysis of that text, replacing the entry the path had.
C21_CacheHitOnlyWithoutText ==
  [][/\ \A n \in 1..Len(tasks) :
          /\ (tasks[n].pc = "resolve" /\ Logs(n) \in {"resolved", "no such export"})
               => AnswersFromCache(n)
          /\ (tasks[n].pc = "resolve" /\ tasks'[n].pc = "read") => StartsToRead(n)
          /\ (tasks[n].pc = "read" /\ Logs(n) \in {"resolved", "no such export"})
               => StoresDiskAnalysis(n)
     /\ (Len(tasks') = Len(tasks) + 1 /\ ~WithoutEcij(tasks'[Len(tasks')].code))
          => StoresSuppliedAnalysis]_vars

\* One transform answered from the cache, and the handler called with a
\* text of a path that had an entry replaced the entry.
C21_Witness ==
  /\ \E n \in 1..Len(tasks) :
       /\ Returned(n) /\ tasks[n].reads = <<>>
       /\ \E k \in 1..Len(tasks[n].ex.resolutions) :
            tasks[n].ex.resolutions[k].outcome = "resolved"
  /\ \E n \in 1..Len(tasks) :
       /\ Len(tasks[n].reads) = 1
       /\ \E m \in (n + 1)..Len(tasks) :
            /\ CleanId(tasks[m].id) = tasks[n].reads[1].filePath
            /\ Analysed(m)
            /\ tasks[m].info # tasks[n].reads[1].info


\* ---- C22
\* The declarations of invocation n that have a tagged template among
\* their interpolations.
HasNested(n) ==
  {d \in 1..Len(Declarations(n)) :
     \E i \in 1..Len(Declarations(n)[d].node.expressions) :
       Declarations(n)[d].node.expressions[i].type = "TaggedTemplateExpression"}

\* C22: at every point of an extraction the replacement ranges found so
\* far are non-empty and pairwise disjoint, and every interpolation of a
\* declaration that got a range is a plain identifier.
C22_RangesDisjoint ==
  \A n \in 1..Len(tasks) :
    LET replacements == tasks[n].ex.replacements
    IN /\ \A j \in 1..Len(replacements) :
            /\ replacements[j].start < replacements[j].end
            /\ \A k \in 1..(j - 1) :
                 \/ replacements[j].end <= replacements[k].start
                 \/ replacements[k].end <= replacements[j].start
       /\ Returned(n) =>
            \A d \in ResolvedSet(n) :
              \A i \in 1..Len(Declarations(n)[d].node.expressions) :
                Declarations(n)[d].node.expressions[i].type = "Identifier"

\* A text with a css template inside a css template and one more: the
\* inner one and the other one got ranges, the outer one got none.
C22_Witness ==
  \E n \in 1..Len(tasks) :
    /\ Returned(n)
    /\ Len(tasks[n].ex.replacements) = 2
    /\ \E d \in HasNested(n) : d \in UnresolvedSet(n) /\ d + 1 \in ResolvedSet(n)


\* ---- C23
\* C23: the style text a transform emits holds no class name of a
\* declaration that a transform of the build left unresolved, so a class
\* name an interpolation resolved to is written at its declaration's site.
C23_OnlyResolvedClassNames ==
  \A n \in 1..Len(tasks), m \in 1..Len(tasks) :
    (Returned(n) /\ Returned(m)) =>
      \A d \in UnresolvedSet(m) :
        ~HasToken(tasks[n].extraction.cssContent, Declarations(m)[d].className)


\* ---- C24
\* The class names the declarations of the file at path p get in the texts
\* of it that the build analyses: the text on disk and the text the host
\* passes to the file's transform.
ClassNamesInBuild(p) ==
  UNION {{ClassNames(Analyze(p, code))[d] : d \in 1..Len(Analyze(p, code).declarations)} :
           code \in {disk[p], OtherPlugin(disk[p])}}

\* C24: a class name of another file's declaration in the style text of a
\* transform is the class name that file's own transform gave one of its
\* declarations, whichever transform ran first and whichever text the
\* other file was analysed from.
C24_SameClassName ==
  \A n \in 1..Len(tasks), m \in 1..Len(tasks) :
    (/\ Returned(n) /\ Returned(m) /\ Analysed(m)
     /\ CleanId(tasks[n].id) # CleanId(tasks[m].id)) =>
      \A k \in 1..Len(tasks[n].extraction.cssContent) :
        tasks[n].extraction.cssContent[k] \in ClassNamesInBuild(CleanId(tasks[m].id))
          => \E d \in 1..Len(Declarations(m)) :
               Declarations(m)[d].className = tasks[n].extraction.cssContent[k]


\* ---- C25
\* Every entry of the module store has a non-empty text and the key made
\* of the clean path of a transformed file and the hash of the text.
WellKeyed(store) ==
  \A key \in DOMAIN store :
    /\ store[key] # <<>>
    /\ \E id \in host.ids : key = CssModuleId(CleanId(id), store[key])

\* The transform that returns in this step with a style text leaves the
\* store as it was, with the text under the key of the file and the text:
\* the same key when an earlier transform of the file had the same text,
\* one more key otherwise.
RegistersUnderOwnKey(n) ==
  LET css == tasks'[n].extraction.cssContent
      key == CssModuleId(CleanId(tasks'[n].id), css)
  IN css # <<>> =>
       /\ DOMAIN extractedCssPerFile' = DOMAIN extractedCssPerFile \cup {key}
       /\ extractedCssPerFile'[key] = css
       /\ \A m \in 1..Len(tasks) :
            (/\ Returned(m) /\ CleanId(tasks[m].id) = CleanId(tasks'[n].id)
             /\ ModuleIdOf(m) \in DOMAIN extractedCssPerFile)
              => (ModuleIdOf(m) = key <=> tasks[m].extraction.cssContent = css)

\* C25: in every state each entry of the module store is a non-empty style
\* text under the key clean path, hash of the text; no step binds a key of
\* the store to another text, and a transform that returns a style text
\* adds at most the key of its own text, keeping the keys of the earlier
\* texts of the file.
C25_KeyIsPathAndHash ==
  /\ []WellKeyed(extractedCssPerFile)
  /\ [][/\ \A key \in DOMAIN extractedCssPerFile \cap DOMAIN extractedCssPerFile' :
            extractedCssPerFile'[key] = extractedCssPerFile[key]
        /\ \A n \in 1..(Len(tasks) + 1) : Returns(n) => RegistersUnderOwnKey(n)]_vars

\* A file was transformed twice with two style texts: both keys are in the
\* store.
C25_Witness ==
  /\ Len(tasks) = 2 /\ Returned(1) /\ Returned(2)
  /\ CleanId(tasks[1].id) = CleanId(tasks[2].id)
  /\ tasks[1].extraction.cssContent # <<>>
  /\ tasks[2].extraction.cssContent # <<>>
  /\ tasks[1].extraction.cssContent # tasks[2].extraction.cssContent
  /\ {ModuleIdOf(1), ModuleIdOf(2)} = DOMAIN extractedCssPerFile
  /\ ModuleIdOf(1) # ModuleIdOf(2)

\* A file was transformed twice with one style text: the store has one key.
C25_WitnessSameText ==
  /\ Len(tasks) = 2 /\ Returned(1) /\ Returned(2)
  /\ tasks[1].extraction.cssContent # <<>>
  /\ tasks[1].extraction.cssContent = tasks[2].extraction.cssContent
  /\ DOMAIN extractedCssPerFile = {ModuleIdOf(1)}


\* ---- C26
\* The positions of the statements of a text that bind name at module
\* level.
ModuleBindingsOf(text, name) ==
  {k \in BindingsOf(text, name) : text[k].k = "tpl" \/ ~text[k].nested}

\* The value of the binding at position k of the text of analysis a: the
\* literal as a string, or the class name of the css declaration.
BindingValue(a, k) ==
  LET text == a.sourceText
      start == Len(Render(SubSeq(text, 1, k - 1))) + Len(TplPrefix(text[k]))
  IN IF text[k].k = "lit" THEN text[k].value
     ELSE LET d == CHOOSE d \in 1..Len(a.info.declarations) :
                     a.info.declarations[d].node.start = start
          IN <<a.info.declarations[d].className>>

\* The names a text exports in the statement that binds them.
ExportedBindings(text) ==
  IF Panicked(text) THEN {}
  ELSE {text[k].name :
          k \in {j \in 1..Len(text) :
                   /\ text[j].k \in {"lit", "tpl"}
                   /\ text[j].exported
                   /\ ModuleBindingsOf(text, text[j].name) # {}}}

\* C26: the value an analysis records for an exported name is the value of
\* the last module-level binding of the name in the text, whatever a
\* function body of the text binds the name to.
C26_ExportIsModuleLevel ==
  \A a \in AnalysesMade :
    \A name \in ExportedBindings(a.sourceText) :
      /\ name \in DOMAIN a.info.exportNameToValueMap
      /\ a.info.exportNameToValueMap[name]
           = BindingValue(a, CHOOSE k \in ModuleBindingsOf(a.sourceText, name) :
                               \A j \in ModuleBindingsOf(a.sourceText, name) : j <= k)

====
